---- MODULE Spec2Model ----
(***************************************************************************)
(* Remote-Control-Server: the movement governor of RemoteControl           *)
(* (src/remote_control.py), the connection handlers of WebSocketHandler    *)
(* (src/websocket_handler.py) and the startup of RemoteControlServer       *)
(* (src/remote_control_server.py, src/mdns_service.py).                    *)
(*                                                                         *)
(* Time is an integer number of ticks.  The handlers are coroutines        *)
(* without an await between their reads of the clock and their writes of   *)
(* the governor fields, so one handled command is one atomic step; the     *)
(* only time that passes inside a step is the duration of the blocking     *)
(* pyautogui primitive.  A connection handler is a coroutine of the one    *)
(* event loop: it gives way to the other handlers only at an await that    *)
(* can suspend, so a step of a handler runs from one such await to the     *)
(* next.                                                                   *)
(***************************************************************************)
EXTENDS Integers, Sequences, FiniteSets, TLC

\* ---------------------------------------------------------------- bounds

\* Ticks the clock may reach.
MaxTime == 6
\* Ticks the clock may reach while sessions are followed.
SessionMaxTime == 2
\* Longest duration, in ticks, of one blocking pointer primitive.
MaxMoveDuration == 1
\* Connections the transport may hold open at once.
NumConns == 2
\* Screen reported by pyautogui.size() (remote_control.py:74).
ScreenWidth == 2
ScreenHeight == 1
\* Frames kept in the outbound logs of all connections together.
MaxOutbox == 3
\* Messages received and not yet handled, all connections together.
MaxInbox == 2
\* Primitive calls of one handler step that may be the one to raise.
MaxCalls == 2
\* Frames a connection has been sent when sessions with every kind of
\* frame stop being followed.
GovernedReplies == 1
\* The governor's thresholds, scaled down to ticks and small counts; the
\* order  min_move_interval < FrequencyWindow < UnlockTimeout  of the source
\* (0.005 s < 1.0 s < 2.0 s) is kept.
\*   self.min_move_interval = 0.005                 remote_control.py:79
min_move_interval == 2
\*   current_time - self.last_move_reset >= 1.0     remote_control.py:96
FrequencyWindow == 3
\*   time.time() - self.last_move_reset > 2.0       remote_control.py:116
UnlockTimeout == 5
\*   self.max_moves_per_second = 200                remote_control.py:83
max_moves_per_second == 2

\* ------------------------------------------------------ program constants

\*   self.max_move_distance = 100                   remote_control.py:80
max_move_distance == 100

\* ------------------------------------------------------------ input sets

Conns == 1..NumConns
Durations == 0..MaxMoveDuration
\* Timestamps of ping frames.
Timestamps == {7, 9}

VARIABLES
    now,                    \* time.time()
    last_mouse_move_time,   \* RemoteControl.last_mouse_move_time
    move_count,             \* RemoteControl.move_count
    last_move_reset,        \* RemoteControl.last_move_reset
    is_locked,              \* RemoteControl.is_locked
    pos,                    \* pyautogui.position(), <<x, y>>
    clients,                \* WebSocketHandler.clients
    outbox,                 \* frames sent with websocket.send, per connection
    ev,                     \* observation: the command handled last
    lastMoveEnd,            \* observation: when the last move primitive
                            \*   returned, -1 before the first
    windowPassed,           \* observation: requests that got past the
                            \*   frequency check since last_move_reset
    lockedAt,               \* observation: when is_locked became true,
                            \*   -1 while unlocked
    lockCause,              \* observation: what set is_locked
    reqAge,                 \* observation: ticks since the last mouse_move
                            \*   request, capped at min_move_interval; -1
                            \*   before the first
    hs,                     \* where the handle_client coroutine of each
                            \*   connection stands: "none" (not running),
                            \*   "welcome" (registered, awaiting the send
                            \*   of the welcome frame), "loop" (awaiting
                            \*   the next message), "sleep" (inside the
                            \*   asyncio.sleep of handle_multiple_keys)
    open,                   \* the connections whose transport is open
    inbox,                  \* per connection: messages received and not
                            \*   yet handed to the message loop
    pending,                \* per connection: the entries of the running
                            \*   multiple_keys command not yet pressed
    evc,                    \* observation: the connection whose handler
                            \*   took the last step recorded in ev
    welcomes,               \* observation: per client_id, the welcome
                            \*   frames sent that carry it, counted to 2
    req,                    \* observation: the object decoded from the
                            \*   message the loop took last
    lockedBy,               \* observation: the connection whose
                            \*   mouse_move set is_locked, 0 if unlocked
    config_has_service_type,\* the config object has a service_type
    running,                \* RemoteControlServer.running
    websocket_server,       \* RemoteControlServer.websocket_server is set
    listener,               \* the listening socket of websockets.serve:
                            \*   "unbound", "bound" or "closed"
    zeroconf,               \* MDNSService.zeroconf: "none", or "open" for
                            \*   an AsyncZeroconf not yet closed
    service_info,           \* MDNSService.service_info is set
    registered,             \* the service is announced on the network
    browser,                \* MDNSService.browser is set
    pc                      \* where the coroutines of the coordinator
                            \*   stand: main() with start() and the stop()
                            \*   calls it runs into, and the stop() task
                            \*   of the signal handler

vars == <<now, last_mouse_move_time, move_count, last_move_reset, is_locked,
          pos, clients, outbox, ev, lastMoveEnd, windowPassed, lockedAt,
          lockCause, reqAge, hs, open, inbox, pending, evc, welcomes, req,
          lockedBy, config_has_service_type, running, websocket_server,
          listener, zeroconf, service_info, registered, browser, pc>>

govVars == <<last_mouse_move_time, move_count, last_move_reset, is_locked>>
obsVars == <<lastMoveEnd, windowPassed, lockedAt, lockCause, reqAge>>
handlerVars == <<hs, open, inbox, pending, evc, welcomes, req, lockedBy>>
coordVars == <<config_has_service_type, running, websocket_server, listener,
               zeroconf, service_info, registered, browser, pc>>

\* --------------------------------------------------------------- helpers

abs(n) == IF n < 0 THEN -n ELSE n
max(a, b) == IF a >= b THEN a ELSE b
min(a, b) == IF a <= b THEN a ELSE b

Screen == (0..(ScreenWidth - 1)) \X (0..(ScreenHeight - 1))

\* The four governor fields as one value.
Governor ==
    [last_mouse_move_time |-> last_mouse_move_time,
     move_count           |-> move_count,
     last_move_reset      |-> last_move_reset,
     is_locked            |-> is_locked]

\* ------------------------------------------------------------- governor

emergency_unlock_keepcount(g, t) ==
    IF g.is_locked /\ t - g.last_move_reset > UnlockTimeout
    THEN [g EXCEPT !.is_locked = FALSE, !.last_move_reset = t]
    ELSE g

\* RemoteControl._emergency_unlock at clock reading t.
emergency_unlock(g, t) ==
    IF g.is_locked /\ t - g.last_move_reset > UnlockTimeout
    THEN [g EXCEPT !.is_locked = FALSE, !.move_count = 0, !.last_move_reset = t]
    ELSE g

rate_limited_never(g, t) == FALSE

\* The rate check of _validate_movement.
rate_limited(g, t) == t - g.last_mouse_move_time < min_move_interval

too_frequent_ge(g) == g.move_count >= max_moves_per_second

\* The frequency check of _validate_movement, on the incremented count.
too_frequent(g) == g.move_count > max_moves_per_second

too_large_both(x, y) ==
    abs(x) > max_move_distance /\ abs(y) > max_move_distance

\* The distance check of _validate_movement.
too_large(x, y) == abs(x) > max_move_distance \/ abs(y) > max_move_distance

\* The bounds check of _validate_movement.
on_screen(x, y) == 0 <= x /\ x < ScreenWidth /\ 0 <= y /\ y < ScreenHeight

\* RemoteControl._validate_movement at clock reading t: the governor it
\* leaves, whether the move is valid, and why not.
validate_movement(g, x, y, relative, t) ==
    IF rate_limited(g, t)
    THEN [g |-> g, valid |-> FALSE, msg |-> "rate"]
    ELSE LET counted == [g EXCEPT !.move_count = @ + 1]
             expired == t - counted.last_move_reset >= FrequencyWindow
             g2 == IF expired
                   THEN [counted EXCEPT !.move_count = 0, !.last_move_reset = t]
                   ELSE counted
         IN  IF ~expired /\ too_frequent(counted)
             THEN [g |-> [counted EXCEPT !.is_locked = TRUE],
                   valid |-> FALSE, msg |-> "frequency"]
             ELSE IF relative
             THEN IF too_large(x, y)
                  THEN [g |-> g2, valid |-> FALSE, msg |-> "distance"]
                  ELSE [g |-> g2, valid |-> TRUE, msg |-> ""]
             ELSE IF ~on_screen(x, y)
                  THEN [g |-> g2, valid |-> FALSE, msg |-> "bounds"]
                  ELSE [g |-> g2, valid |-> TRUE, msg |-> ""]

clamp_none(v, size) == v

\* max(0, min(v, size - 1)), the clamp of handle_mouse_move.
clamp(v, size) == max(0, min(v, size - 1))

\* The primitive handle_mouse_move calls for a valid move with the pointer
\* at p: moveRel with the clamped delta, or moveTo with the clamped target.
move_call(p, x, y, relative) ==
    IF relative
    THEN [name |-> "moveRel",
          a |-> clamp(p[1] + x, ScreenWidth) - p[1],
          b |-> clamp(p[2] + y, ScreenHeight) - p[2]]
    ELSE [name |-> "moveTo",
          a |-> clamp(x, ScreenWidth),
          b |-> clamp(y, ScreenHeight)]

\* Where a pointer primitive that returns leaves the pointer.
pointer_after(p, call) ==
    IF call.name = "moveRel" THEN <<p[1] + call.a, p[2] + call.b>>
    ELSE <<call.a, call.b>>

stamp_move_not(g, t) == g

\* self.last_mouse_move_time = time.time(), after the primitive returned.
stamp_move(g, t) == [g EXCEPT !.last_mouse_move_time = t]

handle_mouse_move_unguarded(g, p, x, y, relative, t, dur, ok) ==
    LET v == validate_movement(g, x, y, relative, t)
        call == move_call(p, x, y, relative)
    IN  IF ~v.valid
        THEN [g |-> v.g, outcome |-> v.msg, prim |-> <<>>, pos |-> p,
              spent |-> 0]
        ELSE IF ok
        THEN [g |-> stamp_move(v.g, t + dur),
              outcome |-> "executed", prim |-> <<call>>,
              pos |-> pointer_after(p, call), spent |-> dur]
        ELSE [g |-> [v.g EXCEPT !.is_locked = TRUE],
              outcome |-> "raised", prim |-> <<call>>, pos |-> p,
              spent |-> dur]
\* RemoteControl.handle_mouse_move entered at clock reading t with the
\* pointer at p; the primitive, if called, takes dur ticks and returns
\* (ok) or raises.  Gives the governor left behind, the primitive calls
\* made, the pointer, the time spent and the branch taken.
handle_mouse_move(g, p, x, y, relative, t, dur, ok) ==
    LET g0 == emergency_unlock(g, t)
    IN  IF g0.is_locked
        THEN [g |-> g0, outcome |-> "locked", prim |-> <<>>, pos |-> p,
              spent |-> 0]
        ELSE LET v == validate_movement(g0, x, y, relative, t)
                 call == move_call(p, x, y, relative)
             IN  IF ~v.valid
                 THEN [g |-> v.g, outcome |-> v.msg, prim |-> <<>>, pos |-> p,
                       spent |-> 0]
                 ELSE IF ok
                 THEN [g |-> stamp_move(v.g, t + dur),
                       outcome |-> "executed", prim |-> <<call>>,
                       pos |-> pointer_after(p, call), spent |-> dur]
                 ELSE [g |-> [v.g EXCEPT !.is_locked = TRUE],
                       outcome |-> "raised", prim |-> <<call>>, pos |-> p,
                       spent |-> dur]

\* -------------------------------------------------------------- frames

MoveFrame(x, y, relative) ==
    [type |-> "mouse_move", x |-> x, y |-> y, relative |-> relative,
     timestamp |-> 0]

\* mouse_move frames: absolute targets on the screen and just off it,
\* relative moves inside the screen, clamped at its edges, at the distance
\* limit and just beyond it.
MoveFrames ==
    {MoveFrame(ScreenWidth - 1, 0, FALSE),
     MoveFrame(ScreenWidth, 0, FALSE),
     MoveFrame(1, 0, TRUE),
     MoveFrame(-1, -1, TRUE),
     MoveFrame(max_move_distance, max_move_distance, TRUE),
     MoveFrame(max_move_distance + 1, 0, TRUE),
     MoveFrame(0, -(max_move_distance + 1), TRUE)}

\* The mouse_move frames sent over connections: one that can be executed
\* and one that is always refused.
SessionMoveFrames ==
    {MoveFrame(ScreenWidth - 1, 0, FALSE),
     MoveFrame(max_move_distance + 1, 0, TRUE)}

PingFrames ==
    [type : {"ping"}, x : {0}, y : {0}, relative : {FALSE},
     timestamp : Timestamps]

\* RemoteControl.get_screen_info: the dimensions stored by __init__.
get_screen_info == [width |-> ScreenWidth, height |-> ScreenHeight]

\* The welcome frame of handle_client.
welcome_message(c) ==
    [type |-> "welcome", client_id |-> c, timestamp |-> 0, command |-> "",
     screen_info |-> get_screen_info]
pong_response_stale(data) ==
    [type |-> "pong", client_id |-> 0, timestamp |-> 0, command |-> ""]
\* The response of the ping branch of handle_command.
pong_response(data) ==
    [type |-> "pong", client_id |-> 0, timestamp |-> data.timestamp,
     command |-> ""]

\* ev before any command: seq is the parity of the number of commands
\* handled, prim the primitive calls the command made, gap the time from
\* the return of the previous move primitive to the start of this one,
\* unlocked whether _emergency_unlock released the lock.
NoEvent ==
    [seq |-> 0, cmd |-> "none", c |-> 0, x |-> 0, y |-> 0,
     relative |-> FALSE, timestamp |-> 0, outcome |-> "none",
     prim |-> <<>>, gap |-> -1, unlocked |-> FALSE]

\* ------------------------------------------------------------- actions

RECURSIVE TotalSent(_)
\* The number of frames in the outbound logs of the connections cs.
TotalSent(cs) ==
    IF cs = {} THEN 0
    ELSE LET c == CHOOSE k \in cs : TRUE
         IN  Len(outbox[c]) + TotalSent(cs \ {c})

\* No message taken yet, or one that decoded to no object.
NoRequest == [type |-> "none"]

\* The objects after construction: RemoteControl, WebSocketHandler,
\* MDNSService and RemoteControlServer, nothing started.
Constructed ==
    /\ now = 0
    /\ last_mouse_move_time = 0
    /\ move_count = 0
    /\ last_move_reset = 0
    /\ is_locked = FALSE
    /\ pos \in Screen
    /\ clients = {}
    /\ outbox = [c \in Conns |-> <<>>]
    /\ ev = NoEvent
    /\ lastMoveEnd = -1
    /\ windowPassed = 0
    /\ lockedAt = -1
    /\ lockCause = "none"
    /\ reqAge = -1
    /\ hs = [c \in Conns |-> "none"]
    /\ open = {}
    /\ inbox = [c \in Conns |-> 0]
    /\ pending = [c \in Conns |-> <<>>]
    /\ evc = 0
    /\ welcomes = [c \in Conns |-> 0]
    /\ req = NoRequest
    /\ lockedBy = 0
    /\ running = FALSE
    /\ websocket_server = FALSE
    /\ listener = "unbound"
    /\ zeroconf = "none"
    /\ service_info = FALSE
    /\ registered = FALSE
    /\ browser = FALSE
    /\ pc = [main |-> [in |-> "start", at |-> "serve"],
             signal |-> [in |-> "signal", at |-> "idle"]]

\* The server is given a ServerConfig as config.py declares it, which has
\* mdns_service_type and no service_type.
Init == Constructed /\ config_has_service_type = FALSE

\* The clock advances while no handler runs.
Tick ==
    /\ now < MaxTime
    /\ now' = now + 1
    /\ reqAge' = IF reqAge < 0 THEN -1 ELSE min(reqAge + 1, min_move_interval)
    /\ UNCHANGED <<govVars, pos, clients, outbox, ev, lastMoveEnd,
                   windowPassed, lockedAt, lockCause, handlerVars,
                   coordVars>>

\* WebSocketHandler.handle_client up to the message loop: register the
\* connection and send the welcome frame.
Connect(c) ==
    /\ c \notin clients
    /\ clients' = clients \cup {c}
    /\ outbox' = [outbox EXCEPT ![c] = <<welcome_message(c)>>]
    /\ UNCHANGED <<now, govVars, pos, ev, obsVars, handlerVars, coordVars>>

\* WebSocketHandler.handle_client leaving the message loop: the finally
\* clause removes the connection.
Disconnect(c) ==
    /\ c \in clients
    /\ clients' = clients \ {c}
    /\ outbox' = [outbox EXCEPT ![c] = <<>>]
    /\ UNCHANGED <<now, govVars, pos, ev, obsVars, handlerVars, coordVars>>

\* dict.get(field, default) on a decoded JSON object.
get(data, field, default) ==
    IF field \in DOMAIN data THEN data[field] ELSE default

\* One call of RemoteControl.handle_mouse_move, as a step; x, y and
\* relative are read with the defaults 0, 0 and False.
MouseMove(data, dur, ok) ==
    LET x == get(data, "x", 0)
        y == get(data, "y", 0)
        relative == get(data, "relative", FALSE)
        r == handle_mouse_move(Governor, pos, x, y, relative, now, dur, ok)
        unlocked == is_locked /\ ~emergency_unlock(Governor, now).is_locked
        restarted == r.g.last_move_reset # last_move_reset
        passed == r.outcome \in {"distance", "bounds", "executed", "raised"}
    IN  /\ now + r.spent <= MaxTime
        /\ now' = now + r.spent
        /\ last_mouse_move_time' = r.g.last_mouse_move_time
        /\ move_count' = r.g.move_count
        /\ last_move_reset' = r.g.last_move_reset
        /\ is_locked' = r.g.is_locked
        /\ pos' = r.pos
        /\ ev' = [seq |-> 1 - ev.seq, cmd |-> "mouse_move", c |-> 0,
                  x |-> x, y |-> y, relative |-> relative,
                  timestamp |-> 0, outcome |-> r.outcome, prim |-> r.prim,
                  gap |-> IF r.outcome = "executed" /\ lastMoveEnd >= 0
                          THEN now - lastMoveEnd ELSE -1,
                  unlocked |-> unlocked]
        /\ lastMoveEnd' = IF r.outcome = "executed" THEN now + r.spent
                          ELSE lastMoveEnd
        /\ windowPassed' = (IF restarted THEN 0 ELSE windowPassed)
                           + (IF passed THEN 1 ELSE 0)
        /\ lockedAt' = IF r.outcome \in {"frequency", "raised"}
                       THEN now + r.spent
                       ELSE IF r.g.is_locked THEN lockedAt ELSE -1
        /\ lockCause' = IF r.outcome = "frequency" THEN "frequency"
                        ELSE IF r.outcome = "raised" THEN "error"
                        ELSE IF r.g.is_locked THEN lockCause ELSE "none"
        /\ reqAge' = min(r.spent, min_move_interval)
        /\ UNCHANGED <<clients, outbox>>

\* The ping branch of WebSocketHandler.handle_command.
Ping(c, data) ==
    /\ TotalSent(Conns) < MaxOutbox
    /\ outbox' = [outbox EXCEPT ![c] = Append(@, pong_response(data))]
    /\ ev' = [NoEvent EXCEPT !.seq = 1 - ev.seq, !.cmd = "ping", !.c = c,
                             !.timestamp = data.timestamp, !.outcome = "pong"]
    /\ UNCHANGED <<now, govVars, pos, clients, obsVars>>

\* WebSocketHandler.handle_command for a frame of a registered connection.
handle_command(c, data, dur, ok) ==
    /\ c \in clients
    /\ IF data.type = "mouse_move" THEN MouseMove(data, dur, ok)
       ELSE IF data.type = "ping" THEN Ping(c, data)
       ELSE FALSE
    /\ UNCHANGED <<handlerVars, coordVars>>

\* What the pointer primitive does when called: how long it blocks and
\* whether it returns or raises.  A command that calls no primitive runs
\* with <<0, TRUE>>.
PrimitiveRuns(data) ==
    IF handle_mouse_move(Governor, pos, get(data, "x", 0), get(data, "y", 0),
                         get(data, "relative", FALSE), now, 0, TRUE).prim
           = <<>>
    THEN {<<0, TRUE>>}
    ELSE Durations \X BOOLEAN

CallMouseMove ==
    \E data \in MoveFrames : \E run \in PrimitiveRuns(data) :
        MouseMove(data, run[1], run[2])
            /\ UNCHANGED <<handlerVars, coordVars>>
Accept == \E c \in Conns : Connect(c)
Close == \E c \in Conns : Disconnect(c)
ReceiveMouseMove ==
    \E c \in Conns, data \in SessionMoveFrames :
        \E run \in PrimitiveRuns(data) :
            handle_command(c, data, run[1], run[2])
ReceivePing ==
    \E c \in Conns, data \in PingFrames : handle_command(c, data, 0, TRUE)

\* The RemoteControl object under any stream of handle_mouse_move calls:
\* the calls of all sessions run one at a time on the one shared object.
Next == Tick \/ CallMouseMove
Spec == Init /\ [][Next]_vars

\* The sessions of the WebSocketHandler: connections come and go, and each
\* frame of a registered connection is handled by handle_command.
SessionTick == now < SessionMaxTime /\ Tick
NextSession == SessionTick \/ Accept \/ Close \/ ReceiveMouseMove \/ ReceivePing
InitSession == Init /\ pos = <<0, 0>>
SpecSession == InitSession /\ [][NextSession]_vars

\* ------------------------------------------- keyboard, buttons and wheel

\* A handler calls its primitives in order; the call numbered fail raises
\* (0: none does), and the calls after it are not made.
calls_made(calls, fail) ==
    IF fail \in 1..Len(calls) THEN SubSeq(calls, 1, fail) ELSE calls
raises(calls, fail) == fail \in 1..Len(calls)

\* What a handler of RemoteControl did: the primitive calls made, whether
\* one of them raised, and whether the exception left the handler.
Done(calls, fail, propagate) ==
    [prim |-> calls_made(calls, fail), failed |-> raises(calls, fail),
     raised |-> propagate /\ raises(calls, fail)]

\* The table SPECIAL_KEYS (remote_control.py:17-67); of the two 'stop'
\* entries of the dict literal the later one stands.
SPECIAL_KEYS ==
    "backspace" :> "backspace" @@ "delete" :> "delete" @@ "enter" :> "enter"
    @@ "tab" :> "tab" @@ "escape" :> "esc" @@ "esc" :> "esc"
    @@ "up" :> "up" @@ "down" :> "down" @@ "left" :> "left"
    @@ "right" :> "right"
    @@ "f1" :> "f1" @@ "f2" :> "f2" @@ "f3" :> "f3" @@ "f4" :> "f4"
    @@ "f5" :> "f5" @@ "f6" :> "f6" @@ "f7" :> "f7" @@ "f8" :> "f8"
    @@ "f9" :> "f9" @@ "f10" :> "f10" @@ "f11" :> "f11" @@ "f12" :> "f12"
    @@ "ctrl" :> "ctrl" @@ "control" :> "ctrl" @@ "alt" :> "alt"
    @@ "shift" :> "shift" @@ "win" :> "win" @@ "windows" :> "win"
    @@ "cmd" :> "cmd" @@ "command" :> "cmd"
    @@ "space" :> "space" @@ "home" :> "home" @@ "end" :> "end"
    @@ "pageup" :> "pageup" @@ "pgup" :> "pageup"
    @@ "pagedown" :> "pagedown" @@ "pgdn" :> "pagedown"
    @@ "insert" :> "insert" @@ "ins" :> "insert"
    @@ "volumeup" :> "volumeup" @@ "volup" :> "volumeup"
    @@ "volumedown" :> "volumedown" @@ "voldown" :> "volumedown"
    @@ "volumemute" :> "volumemute" @@ "mute" :> "volumemute"
    @@ "play" :> "space" @@ "pause" :> "space"
    @@ "next" :> "nexttrack" @@ "previous" :> "prevtrack"
    @@ "browserback" :> "browserback" @@ "back" :> "browserback"
    @@ "browserforward" :> "browserforward" @@ "forward" :> "browserforward"
    @@ "browserrefresh" :> "browserrefresh" @@ "refresh" :> "browserrefresh"
    @@ "browserstop" :> "browserstop" @@ "stop" :> "browserstop"
    @@ "browsersearch" :> "browsersearch" @@ "search" :> "browsersearch"
    @@ "browserfavorites" :> "browserfavorites"
    @@ "favorites" :> "browserfavorites"
    @@ "browserhome" :> "browserhome" @@ "homepage" :> "browserhome"

\* A key string is the sequence of its '+'-separated parts, so "ctrl+c"
\* is <<"ctrl", "c">>, "a" is <<"a">> and the empty string is <<>>.
\* str.lower and str.strip on the parts the frames below are built from.
UpperCased ==
    "A" :> "a" @@ "ESC" :> "esc" @@ "Ctrl" :> "ctrl" @@ " C" :> " c"
    @@ "Esc" :> "esc" @@ "ESCAPE" :> "escape" @@ "Shift " :> "shift "
    @@ "Q" :> "q" @@ "Stop" :> "stop" @@ "C" :> "c" @@ "Shift" :> "shift"
Padded ==
    " c" :> "c" @@ " C" :> "C" @@ "Shift " :> "Shift" @@ "shift " :> "shift"
lower_not(part) == part
lower(part) == IF part \in DOMAIN UpperCased THEN UpperCased[part] ELSE part
strip(part) == IF part \in DOMAIN Padded THEN Padded[part] ELSE part
special(part) ==
    IF part \in DOMAIN SPECIAL_KEYS THEN SPECIAL_KEYS[part] ELSE part
reversed_not(seq) == seq
reversed(seq) == [i \in 1..Len(seq) |-> seq[Len(seq) + 1 - i]]

\* RemoteControl.handle_mouse_click: nothing is caught.
handle_mouse_click(data, fail) ==
    LET button == get(data, "button", "left")
        clicks == get(data, "clicks", 1)
        interval == get(data, "interval", 0)
        calls == IF button \in {"left", "right", "middle"}
                 THEN <<[name |-> "click", button |-> button,
                         clicks |-> clicks, interval |-> interval]>>
                 ELSE IF button = "double" THEN <<[name |-> "doubleClick"]>>
                 ELSE <<>>
    IN  Done(calls, fail, TRUE)

\*   max_scroll = 500                               remote_control.py:185
max_scroll == 500

handle_mouse_scroll_unclamped(data, fail) ==
    Done(<<[name |-> "scroll", amount |-> get(data, "amount", 0)]>>,
         fail, FALSE)
\* RemoteControl.handle_mouse_scroll: the handler catches what the
\* primitive raises and only logs it.
handle_mouse_scroll(data, fail) ==
    LET amount == max(-max_scroll, min(max_scroll, get(data, "amount", 0)))
    IN  Done(<<[name |-> "scroll", amount |-> amount]>>, fail, FALSE)

\* RemoteControl.handle_key_press: nothing is caught.
handle_key_press(data, fail) ==
    LET typed == get(data, "key", <<>>)
        key == [i \in 1..Len(typed) |-> lower(typed[i])]
        hold == get(data, "hold", FALSE)
        release == get(data, "release", FALSE)
    IN  IF key = <<>> THEN Done(<<>>, fail, TRUE)
        ELSE IF Len(key) > 1
        THEN LET mapped == [i \in 1..Len(key) |->
                                special(lower(strip(key[i])))]
             IN  IF hold
                 THEN Done([i \in 1..Len(mapped) |->
                               [name |-> "keyDown", key |-> mapped[i]]],
                           fail, TRUE)
                 ELSE IF release
                 THEN Done([i \in 1..Len(mapped) |->
                               [name |-> "keyUp",
                                key |-> reversed(mapped)[i]]],
                           fail, TRUE)
                 ELSE Done(<<[name |-> "hotkey", keys |-> mapped]>>,
                           fail, TRUE)
        ELSE LET k == special(key[1])
             IN  IF hold
                 THEN Done(<<[name |-> "keyDown", key |-> k]>>, fail, TRUE)
                 ELSE IF release
                 THEN Done(<<[name |-> "keyUp", key |-> k]>>, fail, TRUE)
                 ELSE IF k = "space"
                 THEN Done(<<[name |-> "typewrite", text |-> " "]>>,
                           fail, TRUE)
                 ELSE Done(<<[name |-> "press", key |-> k]>>, fail, TRUE)

\* RemoteControl._process_text_for_typing returns its argument.
process_text_for_typing(text) == text

\* RemoteControl.handle_key_type: nothing is caught.
handle_key_type(data, fail) ==
    LET text == get(data, "text", "")
        interval == get(data, "interval", 0)
    IN  IF text # ""
        THEN Done(<<[name |-> "typewrite",
                     text |-> process_text_for_typing(text),
                     interval |-> interval]>>, fail, TRUE)
        ELSE Done(<<>>, fail, TRUE)

\* One entry of the keys list of multiple_keys: a string is pressed as
\* {"key": entry}, an object is handed to handle_key_press as it is, and
\* anything else is passed over.
press_entry(entry, fail) ==
    IF "str" \in DOMAIN entry
    THEN handle_key_press([key |-> entry.str], fail)
    ELSE IF "dict" \in DOMAIN entry
    THEN handle_key_press(entry.dict, fail)
    ELSE Done(<<>>, fail, TRUE)

\* ---------------------------------------------- the connection handlers

\* A received message is text that is no JSON ("garbage"), JSON that is no
\* object ("array"), or a JSON object.  json.loads raises JSONDecodeError
\* on the first and returns a list or a dict on the others.
Garbage == [json |-> "garbage"]
NonObject == [json |-> "array"]
Object(data) == [json |-> "object", data |-> data]
json_loads(m) ==
    IF m.json = "garbage" THEN [exc |-> "JSONDecodeError"]
    ELSE IF m.json = "array" THEN [value |-> "list"]
    ELSE [value |-> "dict", data |-> m.data]

\* The command types handle_command has a branch for.
Recognized ==
    {"mouse_move", "mouse_click", "mouse_scroll", "key_press", "key_type",
     "multiple_keys", "ping"}

\* str(e) of the exception a primitive raises.
PrimitiveError == "FailSafeException"

\* The error response of handle_command.
error_response(command_type, e) ==
    [type |-> "error", client_id |-> 0, timestamp |-> 0,
     command |-> command_type, error |-> e]

\* The RemoteControl handler that handle_command awaits for a command
\* type other than mouse_move, multiple_keys and ping; the else branch
\* calls none.
dispatch(command_type, data, fail) ==
    IF command_type = "mouse_click" THEN handle_mouse_click(data, fail)
    ELSE IF command_type = "mouse_scroll" THEN handle_mouse_scroll(data, fail)
    ELSE IF command_type = "key_press" THEN handle_key_press(data, fail)
    ELSE IF command_type = "key_type" THEN handle_key_type(data, fail)
    ELSE Done(<<>>, 0, TRUE)

\* The branch taken, as recorded in ev.
outcome_of(command_type, r) ==
    IF command_type \notin Recognized THEN "unknown"
    ELSE IF r.failed THEN "raised"
    ELSE IF r.prim = <<>> THEN "noop"
    ELSE "executed"

Respond_acking(c, command_type, r) ==
    /\ outbox' = [outbox EXCEPT ![c] =
                     Append(@, [type |-> "ack", client_id |-> 0,
                                timestamp |-> 0, command |-> command_type])]
    /\ ev' = [NoEvent EXCEPT !.seq = 1 - ev.seq, !.cmd = command_type,
                             !.c = c, !.outcome = outcome_of(command_type, r),
                             !.prim = r.prim]
    /\ UNCHANGED <<now, govVars, pos, clients, obsVars>>
\* handle_command after the handler of RemoteControl came back with r on
\* connection c: an exception that left the handler is answered with the
\* error response, which reaches the client when the transport is open;
\* nothing else is sent.
Respond_locking(c, command_type, r) ==
    /\ r.raised /\ c \in open => TotalSent(Conns) < MaxOutbox
    /\ outbox' = IF r.raised /\ c \in open
                 THEN [outbox EXCEPT ![c] =
                          Append(@, error_response(command_type,
                                                   PrimitiveError))]
                 ELSE outbox
    /\ ev' = [NoEvent EXCEPT !.seq = 1 - ev.seq, !.cmd = command_type,
                             !.c = c, !.outcome = outcome_of(command_type, r),
                             !.prim = r.prim]
    /\ is_locked' = (is_locked \/ r.raised)
    /\ UNCHANGED <<now, last_mouse_move_time, move_count, last_move_reset,
                   pos, clients, obsVars>>
Respond(c, command_type, r) ==
    /\ r.raised /\ c \in open => TotalSent(Conns) < MaxOutbox
    /\ outbox' = IF r.raised /\ c \in open
                 THEN [outbox EXCEPT ![c] =
                          Append(@, error_response(command_type,
                                                   PrimitiveError))]
                 ELSE outbox
    /\ ev' = [NoEvent EXCEPT !.seq = 1 - ev.seq, !.cmd = command_type,
                             !.c = c, !.outcome = outcome_of(command_type, r),
                             !.prim = r.prim]
    /\ UNCHANGED <<now, govVars, pos, clients, obsVars>>

Drop_answering(c, command_type, error) ==
    /\ ev' = [NoEvent EXCEPT !.seq = 1 - ev.seq, !.cmd = command_type,
                             !.c = c, !.outcome = error]
    /\ outbox' = [outbox EXCEPT ![c] =
                     Append(@, error_response(command_type, error))]
    /\ UNCHANGED <<now, govVars, pos, clients, obsVars>>
\* The loop body dropping a message: json.loads raised, data.get failed
\* on a value that is no dict, or a send raised on a closed transport;
\* the exception is caught in handle_client and logged.
Drop(c, command_type, error) ==
    /\ ev' = [NoEvent EXCEPT !.seq = 1 - ev.seq, !.cmd = command_type,
                             !.c = c, !.outcome = error]
    /\ UNCHANGED <<now, govVars, pos, clients, outbox, obsVars>>

\* handle_client from its first line to the await of the welcome send:
\* the connection object is registered.  id(websocket) is the address of
\* the object, one that no connection object alive at the time occupies.
AcceptConnection(c) ==
    /\ hs[c] = "none"
    /\ hs' = [hs EXCEPT ![c] = "welcome"]
    /\ open' = open \cup {c}
    /\ clients' = clients \cup {c}
    /\ inbox' = [inbox EXCEPT ![c] = 0]
    /\ outbox' = [outbox EXCEPT ![c] = <<>>]
    /\ UNCHANGED <<now, govVars, pos, ev, obsVars, pending, evc, welcomes,
                   coordVars, req,
                   lockedBy>>

finally_remove_not(registry, c) == registry
\* The finally clause of handle_client.
finally_remove(registry, c) == registry \ {c}

\* The handler of connection c returns through its finally clause; the
\* transport is closed with it and the connection's logs end.
Leave(c) ==
    /\ hs' = [hs EXCEPT ![c] = "none"]
    /\ clients' = finally_remove(clients, c)
    /\ open' = open \ {c}
    /\ inbox' = [inbox EXCEPT ![c] = 0]
    /\ outbox' = [outbox EXCEPT ![c] = <<>>]
    /\ pending' = [pending EXCEPT ![c] = <<>>]

\* await websocket.send(welcome): the frame is written (sent) and the
\* handler enters the message loop, or the send raises, because the
\* transport is closed or for another reason, and the handler leaves.
SendWelcome(c, sent) ==
    /\ hs[c] = "welcome"
    /\ IF sent /\ c \in open
       THEN /\ outbox' = [outbox EXCEPT ![c] = Append(@, welcome_message(c))]
            /\ welcomes' = [welcomes EXCEPT ![c] = min(@ + 1, 2)]
            /\ hs' = [hs EXCEPT ![c] = "loop"]
            /\ UNCHANGED <<clients, open, inbox, pending>>
       ELSE /\ Leave(c)
            /\ UNCHANGED welcomes
    /\ UNCHANGED <<now, govVars, pos, ev, obsVars, evc, coordVars, req,
                   lockedBy>>

RECURSIVE TotalQueued(_)
\* The number of messages waiting in the inboxes of the connections cs.
TotalQueued(cs) ==
    IF cs = {} THEN 0
    ELSE LET c == CHOOSE k \in cs : TRUE
         IN  inbox[c] + TotalQueued(cs \ {c})

\* The client sends a message; websockets queues it for the loop.
ClientSend(c) ==
    /\ c \in open
    /\ TotalQueued(Conns) < MaxInbox
    /\ inbox' = [inbox EXCEPT ![c] = @ + 1]
    /\ UNCHANGED <<now, govVars, pos, clients, outbox, ev, obsVars, hs, open,
                   pending, evc, welcomes, coordVars, req,
                   lockedBy>>

\* The transport of connection c closes: the client went away.
PeerClose(c) ==
    /\ c \in open
    /\ open' = open \ {c}
    /\ UNCHANGED <<now, govVars, pos, clients, outbox, ev, obsVars, hs,
                   inbox, pending, evc, welcomes, coordVars, req,
                   lockedBy>>

\* async for message in websocket: the loop ends when the transport is
\* closed and no received message is left, and the handler leaves.
LeaveLoop(c) ==
    /\ hs[c] = "loop"
    /\ inbox[c] = 0
    /\ c \notin open
    /\ Leave(c)
    /\ UNCHANGED <<now, govVars, pos, ev, obsVars, evc, welcomes, coordVars,
                   req, lockedBy>>

asyncio_sleep_blocking(c) == Conns
\* await asyncio.sleep(interval) in the handler of connection c: the
\* handlers that cannot run until the sleep is over.  The coroutine is
\* suspended and the event loop runs the others.
asyncio_sleep(c) == {c}

loop_ready_eager(h) == h \in {"loop", "sleep"}
\* await self.handle_command(websocket, data) in the body of the message
\* loop: the loop takes its next message once handle_command returned.
loop_ready(h) == h = "loop"

\* The event loop can run the handler of connection c.
runnable(c) ==
    \A s \in Conns \ {c} : hs[s] = "sleep" => c \notin asyncio_sleep(s)

\* One pass of the body of the message loop of connection c, up to the
\* next await that suspends: the message m is decoded and handed to
\* handle_command.  The pointer primitive takes dur ticks; the primitive
\* call numbered fail raises.
\* The connection whose mouse_move holds the governor locked after the
\* mouse_move of connection c.
locker(c, data, dur, ok) ==
    LET r == handle_mouse_move(Governor, pos, get(data, "x", 0),
                               get(data, "y", 0),
                               get(data, "relative", FALSE), now, dur, ok)
    IN  IF r.outcome \in {"frequency", "raised"} THEN c
        ELSE IF r.g.is_locked THEN lockedBy ELSE 0
HandleMessage(c, m, dur, fail) ==
    LET d == json_loads(m)
        data == d.data
        command_type == get(data, "type", "unknown")
        keys == get(data, "keys", <<>>)
        first == press_entry(keys[1], fail)
    IN  /\ loop_ready(hs[c])
        /\ runnable(c)
        /\ inbox[c] > 0
        /\ inbox' = [inbox EXCEPT ![c] = @ - 1]
        /\ evc' = c
        /\ req' = IF "data" \in DOMAIN d THEN d.data ELSE NoRequest
        /\ lockedBy' = IF "data" \in DOMAIN d /\ command_type = "mouse_move"
                       THEN locker(c, data, dur, fail = 0)
                       ELSE lockedBy
        /\ UNCHANGED <<open, welcomes, coordVars>>
        /\ IF "exc" \in DOMAIN d
           THEN fail = 0 /\ Drop(c, "none", d.exc) /\ UNCHANGED <<hs, pending>>
           ELSE IF d.value # "dict"
           THEN fail = 0 /\ Drop(c, "none", "AttributeError")
                /\ UNCHANGED <<hs, pending>>
           ELSE IF command_type = "mouse_move"
           THEN /\ MouseMove(data, dur, fail = 0)
                /\ UNCHANGED <<hs, pending>>
           ELSE IF command_type = "ping"
           THEN /\ fail = 0
                /\ IF c \in open THEN Ping(c, data)
                   ELSE Drop(c, command_type, "ConnectionClosed")
                /\ UNCHANGED <<hs, pending>>
           ELSE IF command_type = "multiple_keys"
           THEN IF keys = <<>>
                THEN /\ fail = 0
                     /\ Respond(c, command_type, Done(<<>>, 0, TRUE))
                     /\ UNCHANGED <<hs, pending>>
                ELSE /\ fail <= Len(press_entry(keys[1], 0).prim)
                     /\ Respond(c, command_type, first)
                     /\ IF first.raised THEN UNCHANGED <<hs, pending>>
                        ELSE /\ hs' = [hs EXCEPT ![c] = "sleep"]
                             /\ pending' = [pending EXCEPT ![c] = Tail(keys)]
           ELSE /\ fail <= Len(dispatch(command_type, data, 0).prim)
                /\ Respond(c, command_type,
                           dispatch(command_type, data, fail))
                /\ UNCHANGED <<hs, pending>>

\* The asyncio.sleep of handle_multiple_keys is over: the next entry is
\* pressed and the handler sleeps again, or, with no entry left or with
\* an entry that raised, handle_command returns and the loop goes on.
WakeUp(c, fail) ==
    LET r == press_entry(Head(pending[c]), fail)
    IN  /\ hs[c] = "sleep"
        /\ runnable(c)
        /\ IF pending[c] = <<>>
           THEN /\ fail = 0
                /\ hs' = [hs EXCEPT ![c] = "loop"]
                /\ UNCHANGED <<now, govVars, pos, clients, outbox, ev,
                               obsVars, pending, evc>>
           ELSE /\ fail <= Len(press_entry(Head(pending[c]), 0).prim)
                /\ Respond(c, "multiple_keys", r)
                /\ evc' = c
                /\ IF r.raised
                   THEN /\ hs' = [hs EXCEPT ![c] = "loop"]
                        /\ pending' = [pending EXCEPT ![c] = <<>>]
                   ELSE /\ pending' = [pending EXCEPT ![c] = Tail(@)]
                        /\ UNCHANGED hs
        /\ UNCHANGED <<open, inbox, welcomes, coordVars, req,
                   lockedBy>>

\* ------------------------------------------------ the received messages

\* Objects whose type handle_command has no branch for, and one without a
\* type.
UnknownFrames == {[type |-> "levitate"], [x |-> 1]}
ClickFrames == {[type |-> "mouse_click", button |-> "right"]}
ScrollFrames == {[type |-> "mouse_scroll", amount |-> 3]}
KeyPressFrames ==
    {[type |-> "key_press", key |-> <<"a">>],
     [type |-> "key_press", key |-> <<"Ctrl", "c">>, hold |-> TRUE]}
KeyTypeFrames == {[type |-> "key_type", text |-> "hi"]}
\* multiple_keys with one entry, and with a string entry and an object
\* entry.
ShortKeysFrames == {[type |-> "multiple_keys", keys |-> <<[str |-> <<"a">>]>>]}
LongKeysFrames ==
    {[type |-> "multiple_keys",
      keys |-> <<[str |-> <<"a">>], [dict |-> [key |-> <<"ESC">>]]>>]}
StampedPing ==
    [type |-> "ping", x |-> 0, y |-> 0, relative |-> FALSE, timestamp |-> 7]

\* ---------------------------------------- one session and its commands

CommandFrames ==
    ClickFrames \cup ScrollFrames \cup KeyPressFrames \cup KeyTypeFrames
        \cup ShortKeysFrames

OpenSession == \E c \in Conns : AcceptConnection(c)
\* A client connects while no other is connected.
OpenAlone == clients = {} /\ OpenSession
Welcome == \E c \in Conns : SendWelcome(c, TRUE)
Arrive == \E c \in Conns : ClientSend(c)
ReceiveMalformed ==
    \E c \in Conns, m \in {Garbage, NonObject} : HandleMessage(c, m, 0, 0)
ReceiveUnknown ==
    \E c \in Conns, data \in UnknownFrames :
        HandleMessage(c, Object(data), 0, 0)
ReceiveCommand ==
    \E c \in Conns, data \in CommandFrames, fail \in 0..MaxCalls :
        HandleMessage(c, Object(data), 0, fail)
\* The mouse_move frames of the session that is followed alone: one that
\* can be executed, one beyond the distance limit and one off the screen.
OutboundMoveFrames ==
    SessionMoveFrames \cup {MoveFrame(ScreenWidth, 0, FALSE)}
ReceiveMove ==
    \E c \in Conns, data \in OutboundMoveFrames :
        \E run \in PrimitiveRuns(data) :
            HandleMessage(c, Object(data), run[1], IF run[2] THEN 0 ELSE 1)
ReceiveStampedPing ==
    \E c \in Conns : HandleMessage(c, Object(StampedPing), 0, 0)
Resume == \E c \in Conns, fail \in 0..MaxCalls : WakeUp(c, fail)

ReceiveClick ==
    \E c \in Conns, data \in ClickFrames, fail \in 0..MaxCalls :
        HandleMessage(c, Object(data), 0, fail)

\* One session of the WebSocketHandler under the messages that do not
\* move the pointer: the session is opened and welcomed, messages arrive
\* and are handled in turn.
NextCommands ==
    \/ OpenAlone \/ Welcome \/ Arrive
    \/ ReceiveMalformed \/ ReceiveUnknown \/ ReceiveCommand
    \/ ReceiveStampedPing \/ Resume
SpecCommands == InitSession /\ [][NextCommands]_vars

\* One session whose client moves the pointer, clicks and pings while the
\* clock advances: everything the session sends back.
NextOutbound ==
    \/ SessionTick \/ OpenAlone \/ Welcome \/ Arrive
    \/ ReceiveClick \/ ReceiveMove \/ ReceiveStampedPing
SpecOutbound == InitSession /\ [][NextOutbound]_vars

\* -------------------------------------------- sessions that come and go

\* WebSocketHandler.get_connected_clients_count.
get_connected_clients_count == Cardinality(clients)

WelcomeOrFail == \E c \in Conns, sent \in BOOLEAN : SendWelcome(c, sent)
Hangup == \E c \in Conns : PeerClose(c)
Finish == \E c \in Conns : LeaveLoop(c)

\* The connection handlers of WebSocketHandler with clients that connect,
\* ping and go away, at any time.
NextClients ==
    \/ OpenSession \/ WelcomeOrFail \/ Arrive \/ ReceiveStampedPing
    \/ Hangup \/ Finish
SpecClients == InitSession /\ [][NextClients]_vars

\* ------------------------------------------- sessions that press keys

KeysFrames == {[type |-> "key_press", key |-> <<"a">>]} \cup LongKeysFrames

\* The handler of connection c takes a key message; the primitive returns.
ReceiveKeysOn(c) ==
    \E data \in KeysFrames : HandleMessage(c, Object(data), 0, 0)
\* The handler of connection c comes back from the sleep of multiple_keys;
\* the press of the next entry returns.
ResumeOn(c) == WakeUp(c, 0)
ReceiveKeys == \E c \in Conns : ReceiveKeysOn(c)
ResumeKeys == \E c \in Conns : ResumeOn(c)
\* A client connects with a connection object at an address not used
\* before.
OpenFresh == \E c \in Conns : welcomes[c] = 0 /\ AcceptConnection(c)

\* Sessions whose clients send key_press and multiple_keys messages and go
\* away at any time, also in the middle of a multiple_keys command.
NextKeys ==
    \/ OpenFresh \/ Welcome \/ Arrive \/ ReceiveKeys \/ ResumeKeys
    \/ Hangup \/ Finish
SpecKeys == InitSession /\ [][NextKeys]_vars

\* Sessions that stay, under the scheduling of the event loop: a handler
\* that can run does run.  Nothing is assumed of connection 1, which may
\* stay in the sleep of multiple_keys, or without a message, for ever.
NextKeysStay ==
    OpenFresh \/ Welcome \/ Arrive \/ ReceiveKeys \/ ResumeKeys
FairKeys ==
    \A c \in Conns \ {1} :
        WF_vars(ReceiveKeysOn(c)) /\ WF_vars(ResumeOn(c))
SpecKeysFair == InitSession /\ [][NextKeysStay]_vars /\ FairKeys

\* ------------------------------------------- sessions that turn the wheel

\* Amounts around the limits of handle_mouse_scroll, and far beyond them.
ScrollAmounts ==
    {-10000, -max_scroll - 1, -max_scroll, -1, 0, 1, max_scroll,
     max_scroll + 1, 10000}
\* mouse_scroll with each amount, and without one.
WheelFrames ==
    {[type |-> "mouse_scroll", amount |-> a] : a \in ScrollAmounts}
        \cup {[type |-> "mouse_scroll"]}
ReceiveScroll ==
    \E c \in Conns, data \in WheelFrames, fail \in 0..1 :
        HandleMessage(c, Object(data), 0, fail)

\* One session at a time that sends mouse_scroll.
NextScroll ==
    OpenAlone \/ Welcome \/ Arrive \/ ReceiveScroll \/ Hangup \/ Finish
SpecScroll == InitSession /\ [][NextScroll]_vars

\* ------------------------------------------------ sessions that press a key

\* Key strings: combinations, and single keys in several spellings, in
\* the table and not in it.
PressedKeys ==
    {<<"Ctrl", "Shift ", "ESC">>, <<"control", " C">>,
     <<"ESC">>, <<"Esc">>, <<"esc">>, <<"ESCAPE">>, <<"escape">>,
     <<"A">>, <<"a">>, <<"Q">>, <<"space">>, <<"Stop">>, <<"stop">>}
\* key_press with each key string, plain, with hold, with release and
\* with both.
PressFrames ==
    UNION {{[type |-> "key_press", key |-> k],
            [type |-> "key_press", key |-> k, hold |-> TRUE],
            [type |-> "key_press", key |-> k, release |-> TRUE],
            [type |-> "key_press", key |-> k, hold |-> TRUE,
             release |-> TRUE]} : k \in PressedKeys}
ReceivePress ==
    \E c \in Conns, data \in PressFrames, fail \in 0..MaxCalls :
        HandleMessage(c, Object(data), 0, fail)

\* One session at a time that sends key_press.
NextPress == OpenAlone \/ Welcome \/ Arrive \/ ReceivePress
SpecPress == InitSession /\ [][NextPress]_vars

\* ------------------------------------------------ sessions that click

\* mouse_click with every button handle_mouse_click knows and one it does
\* not, with no clicks field and with counts around 1.
ClickButtons == {"left", "right", "middle", "double", "thumb"}
ClickCounts == {-1, 0, 1, 2}
ClicksFrames ==
    {[type |-> "mouse_click", button |-> b] : b \in ClickButtons}
        \cup {[type |-> "mouse_click", button |-> b, clicks |-> n,
               interval |-> 1] : b \in ClickButtons, n \in ClickCounts}
ReceiveClicks ==
    \E c \in Conns, data \in ClicksFrames, fail \in 0..1 :
        HandleMessage(c, Object(data), 0, fail)

\* One session at a time that sends mouse_click.
NextClick == OpenAlone \/ Welcome \/ Arrive \/ ReceiveClicks
SpecClick == InitSession /\ [][NextClick]_vars

\* ------------------------------------- sessions that press keys in a row

\* multiple_keys with two and with three entries, strings and objects.
SequenceFrames ==
    LongKeysFrames \cup
        {[type |-> "multiple_keys",
          keys |-> <<[str |-> <<"Ctrl", "c">>], [str |-> <<"Q">>],
                     [dict |-> [key |-> <<"enter">>, hold |-> TRUE]]>>]}
ReceiveSequence ==
    \E c \in Conns, data \in SequenceFrames, fail \in 0..MaxCalls :
        HandleMessage(c, Object(data), 0, fail)

\* One session at a time that sends multiple_keys; a press may raise.
NextSequence ==
    OpenAlone \/ Welcome \/ Arrive \/ ReceiveSequence \/ Resume
        \/ Hangup \/ Finish
SpecSequence == InitSession /\ [][NextSequence]_vars

\* --------------------------------- sessions that move with fields missing

\* mouse_move without x, without y and without both, absolute and
\* relative, and one frame that has both.
PartialMoveFrames ==
    {[type |-> "mouse_move", y |-> 0],
     [type |-> "mouse_move", x |-> 1],
     [type |-> "mouse_move"],
     [type |-> "mouse_move", x |-> 1, relative |-> TRUE],
     [type |-> "mouse_move", x |-> 1, y |-> 0]}
ReceivePartialMove ==
    \E c \in Conns, data \in PartialMoveFrames :
        \E run \in PrimitiveRuns(data) :
            HandleMessage(c, Object(data), run[1], IF run[2] THEN 0 ELSE 1)

\* One session at a time that sends such frames while the clock runs.
NextPartial ==
    SessionTick \/ OpenAlone \/ Welcome \/ Arrive \/ ReceivePartialMove
SpecPartial == InitSession /\ [][NextPartial]_vars

\* ------------------------------------- sessions with every kind of frame

\* One session at a time under every kind of frame while the clock runs:
\* moves, the other commands with primitives that return or raise, pings,
\* unknown and malformed frames; the peer may close and the handler leave.
GovernedFrames ==
    {[type |-> "mouse_click", button |-> "right"],
     [type |-> "mouse_scroll", amount |-> 3],
     [type |-> "key_press", key |-> <<"a">>],
     [type |-> "key_type", text |-> "hi"],
     [type |-> "multiple_keys", keys |-> <<[str |-> <<"a">>]>>]}
\* The sessions are followed while the connection has been sent at most
\* GovernedReplies frames; the connection is the first one.
Answered(c) == c = 1 /\ Len(outbox[c]) <= GovernedReplies
ReceiveGovernedMove ==
    \E data \in SessionMoveFrames : \E run \in PrimitiveRuns(data) :
        Answered(1) /\ HandleMessage(1, Object(data), run[1],
                                     IF run[2] THEN 0 ELSE 1)
ReceiveOther ==
    \E data \in GovernedFrames, fail \in 0..1 :
        Answered(1) /\ HandleMessage(1, Object(data), 0, fail)
ReceiveNoCommand ==
    \E m \in {Garbage, Object([type |-> "levitate"]), Object(StampedPing)} :
        Answered(1) /\ HandleMessage(1, m, 0, 0)
NextGoverned ==
    \/ SessionTick \/ (clients = {} /\ AcceptConnection(1))
    \/ Welcome \/ Arrive
    \/ ReceiveGovernedMove \/ ReceiveOther \/ ReceiveNoCommand
    \/ WakeUp(1, 0) \/ Hangup \/ Finish
SpecGoverned == InitSession /\ [][NextGoverned]_vars

\* ------------------------------------ sessions that move side by side

\* Two sessions at once, each opened once and sending mouse_move frames
\* while the clock runs; the handlers take their messages in any order.
ReceiveSharedMove ==
    \E c \in Conns, data \in SessionMoveFrames :
        \E run \in PrimitiveRuns(data) :
            HandleMessage(c, Object(data), run[1], IF run[2] THEN 0 ELSE 1)
NextShared ==
    \/ Tick
    \/ \E c \in {1, 2} : welcomes[c] = 0 /\ AcceptConnection(c)
    \/ Welcome \/ Arrive \/ ReceiveSharedMove
SpecShared == InitSession /\ [][NextShared]_vars

\* ------------------------------------------------------ the coordinator

\* The fields of RemoteControlServer and MDNSService, the listening socket,
\* the announcement and the transports, as one value: the code between
\* two awaits that suspend is a function from such a value to the next.
co ==
    [running |-> running, websocket_server |-> websocket_server,
     listener |-> listener, zeroconf |-> zeroconf,
     service_info |-> service_info, registered |-> registered,
     browser |-> browser, open |-> open]

\* A coroutine that got as far as the await named at, leaving st behind.
At(s, where) == [st |-> s, at |-> where]

\* self.websocket_server.close(): the listening socket is closed and so
\* is the transport of every connection.
server_close(s) == [s EXCEPT !.listener = "closed", !.open = {}]

\* MDNSService.stop from "if self.zeroconf" on: up to the await of
\* async_close, or to the end.
mdns_close(s) ==
    IF s.zeroconf = "open" THEN At(s, "close") ELSE At(s, "done")

\* MDNSService.stop from its first line: the browser is cancelled and
\* forgotten; up to the await of async_unregister_service, or on.
mdns_stop(s) ==
    LET s1 == [s EXCEPT !.browser = FALSE]
    IN  IF s1.service_info /\ s1.zeroconf = "open"
        THEN At(s1, "unregister")
        ELSE mdns_close(s1)

\* RemoteControlServer.stop from its first line: up to the await of
\* wait_closed, or on into MDNSService.stop when no server was stored.
stop(s) ==
    LET s1 == [s EXCEPT !.running = FALSE]
    IN  IF s1.websocket_server
        THEN At(server_close(s1), "wait_closed")
        ELSE mdns_stop(s1)

\* MDNSService.start and register_service up to the await of
\* async_register_service.  AsyncZeroconf() returns or raises; reading
\* config.service_type raises on a config object without it.  What
\* raises reaches the except clause of RemoteControlServer.start, which
\* calls stop.
mdns_start(s, created) ==
    IF ~created THEN stop(s)
    ELSE LET s1 == [s EXCEPT !.zeroconf = "open"]
         IN  IF ~config_has_service_type THEN stop(s1)
             ELSE At([s1 EXCEPT !.service_info = TRUE], "register")

\* RemoteControlServer.start once async_register_service has returned:
\* start_discovery reads self.zeroconf.zeroconf and creates the browser,
\* running is set and start awaits wait_closed.
start_discovery(s, browsing) ==
    IF s.zeroconf = "none" \/ ~browsing THEN stop(s)
    ELSE At([s EXCEPT !.browser = TRUE, !.running = TRUE], "serving")

\* Where the coroutine is once a call of stop has returned: the stop task
\* of the signal handler is done; main, after the stop in the except
\* clause of start, goes through sys.exit into its finally clause and
\* calls stop again; after that stop it returns.
then(in, r) ==
    IF r.at # "done" THEN [st |-> r.st, in |-> in, at |-> r.at]
    ELSE IF in = "signal" THEN [st |-> r.st, in |-> in, at |-> "done"]
    ELSE IF in = "finally" THEN [st |-> r.st, in |-> in, at |-> "exited"]
    ELSE LET f == stop(r.st)
         IN  [st |-> f.st, in |-> "finally",
              at |-> IF f.at = "done" THEN "exited" ELSE f.at]

\* The coroutine who has run to its next await, or to its end.
Become(who, x) ==
    /\ running' = x.st.running
    /\ websocket_server' = x.st.websocket_server
    /\ listener' = x.st.listener
    /\ zeroconf' = x.st.zeroconf
    /\ service_info' = x.st.service_info
    /\ registered' = x.st.registered
    /\ browser' = x.st.browser
    /\ open' = x.st.open
    /\ pc' = [pc EXCEPT ![who] = [in |-> x.in, at |-> x.at]]
    /\ UNCHANGED <<now, govVars, pos, clients, outbox, ev, obsVars, hs, inbox,
                   pending, evc, welcomes, req, lockedBy,
                   config_has_service_type>>

\* await websockets.serve(...) in start: the socket is bound and start
\* goes on into MDNSService.start, or serve raises.
Serve(bound, created) ==
    /\ pc.main = [in |-> "start", at |-> "serve"]
    /\ Become("main",
              IF bound
              THEN LET r == mdns_start([co EXCEPT !.websocket_server = TRUE,
                                                  !.listener = "bound"],
                                       created)
                   IN  then(IF r.at = "register" THEN "start" ELSE "except", r)
              ELSE then("except", stop(co)))

\* await self.zeroconf.async_register_service(...) returns, having
\* announced the service when the AsyncZeroconf is still open, or raises.
Register(announced, browsing) ==
    /\ pc.main = [in |-> "start", at |-> "register"]
    /\ Become("main",
              IF announced
              THEN LET r == start_discovery(
                                [co EXCEPT !.registered = (zeroconf = "open")],
                                browsing)
                   IN  then(IF r.at = "serving" THEN "start" ELSE "except", r)
              ELSE then("except", stop(co)))

\* Every handle_client coroutine has returned.
handlers_gone == \A c \in Conns : hs[c] = "none"

\* await self.websocket_server.wait_closed() in start returns: the server
\* was closed and its handlers are gone.  start returns and main calls
\* stop in its finally clause.
Served ==
    /\ pc.main = [in |-> "start", at |-> "serving"]
    /\ listener = "closed" /\ handlers_gone
    /\ Become("main", then("returned", At(co, "done")))

\* SIGINT or SIGTERM: the signal handler of main creates a task that runs
\* stop.
Signal ==
    /\ pc.signal.at = "idle"
    /\ Become("signal", then("signal", stop(co)))

\* await self.websocket_server.wait_closed() in stop returns.
StopWaitClosed(who) ==
    /\ pc[who].in # "start" /\ pc[who].at = "wait_closed"
    /\ handlers_gone
    /\ Become(who, then(pc[who].in, mdns_stop(co)))

\* await self.zeroconf.async_unregister_service(...) in MDNSService.stop
\* returns or raises; what it raises is logged and ends the stop.
StopUnregister(who, unannounced) ==
    /\ pc[who].in # "start" /\ pc[who].at = "unregister"
    /\ Become(who,
              then(pc[who].in,
                   IF unannounced
                   THEN mdns_close([co EXCEPT !.registered = FALSE])
                   ELSE At(co, "done")))

\* await self.zeroconf.async_close() returns: a closed AsyncZeroconf
\* announces nothing; self.zeroconf = None.
StopClose(who) ==
    /\ pc[who].in # "start" /\ pc[who].at = "close"
    /\ Become(who, then(pc[who].in,
                        At([co EXCEPT !.zeroconf = "none",
                                      !.registered = FALSE], "done")))

Coroutines == {"main", "signal"}
Startup == \E bound, created \in BOOLEAN : Serve(bound, created)
Registration ==
    \E announced, browsing \in BOOLEAN : Register(announced, browsing)
Closed == \E who \in Coroutines : StopWaitClosed(who)
Unregistered ==
    \E who \in Coroutines, unannounced \in BOOLEAN :
        StopUnregister(who, unannounced)
Released == \E who \in Coroutines : StopClose(who)
\* The server accepts a connection on its bound socket.
AcceptWhileBound == listener = "bound" /\ OpenFresh

\* main() of remote_control_server.py with any config object, signals at
\* any time and clients that connect and go away.
InitServer ==
    Constructed /\ pos = <<0, 0>> /\ config_has_service_type \in BOOLEAN
NextServer ==
    \/ Startup \/ Registration \/ Served \/ Signal
    \/ Closed \/ Unregistered \/ Released
    \/ AcceptWhileBound \/ Welcome \/ Hangup \/ Finish
SpecServer == InitServer /\ [][NextServer]_vars

\* ------------------------------------------------- claims: the governor

\* A step that handles a command; ev' describes it.
HandlerStep == ev'.seq # ev.seq
MoveStep == HandlerStep /\ ev'.cmd = "mouse_move"

\* C1: pointer movement stays bounded.  A move primitive that returned
\* started at least min_move_interval after the previous one returned,
\* and every relative move that reached the primitive was requested with
\* |x| and |y| at most max_move_distance.
C1_BoundedMovement ==
    /\ ev.outcome = "executed" /\ ev.gap >= 0 => ev.gap >= min_move_interval
    /\ ev.prim # <<>> /\ ev.relative =>
           abs(ev.x) <= max_move_distance /\ abs(ev.y) <= max_move_distance

\* Two moves executed one after the other, the later one relative.
C1_Witness ==
    ev.outcome = "executed" /\ ev.gap >= min_move_interval /\ ev.relative

\* C2 as stated: a mouse_move request handled less than min_move_interval
\* after the previous request is denied, whatever became of the previous
\* request.
C2_Original ==
    [][MoveStep /\ reqAge >= 0 /\ reqAge < min_move_interval
          => ev'.prim = <<>>]_vars

\* C2 amended: a mouse_move request handled less than min_move_interval
\* after an executed move returned is denied: no primitive is called and
\* the pointer stays where it is.
C2_RateLimit ==
    [][MoveStep /\ lastMoveEnd >= 0 /\ now - lastMoveEnd < min_move_interval
          => ev'.prim = <<>> /\ pos' = pos]_vars

\* A request refused by the rate check after an executed move.
C2_Witness == ev.outcome = "rate" /\ lastMoveEnd >= 0

\* C3 as stated: within one frequency window at most max_moves_per_second
\* requests get past the frequency check.
C3_FrequencyCap == windowPassed <= max_moves_per_second

\* C4 as stated: once is_locked became true, every mouse_move request that
\* arrives less than the unlock timeout after that transition is denied.
C4_LockHolds ==
    [][MoveStep /\ lockedAt >= 0 /\ now - lockedAt < UnlockTimeout
          => ev'.prim = <<>>]_vars

\* The request shall be executed when nothing but the lock stands against
\* it: a target on the screen or a delta within the distance limit.
ValidRequest(e) ==
    IF e.relative
    THEN abs(e.x) <= max_move_distance /\ abs(e.y) <= max_move_distance
    ELSE 0 <= e.x /\ e.x < ScreenWidth /\ 0 <= e.y /\ e.y < ScreenHeight

\* C5: a mouse_move request that finds the governor locked more than the
\* unlock timeout after last_move_reset clears the lock, restarts the
\* window at the request's time with the request as its first count, and,
\* when it is valid and not rate limited, calls the move primitive; the
\* governor stays unlocked when the primitive returns.
C5_LockRelease ==
    [][MoveStep /\ is_locked /\ now - last_move_reset > UnlockTimeout
          => /\ ev'.unlocked
             /\ last_move_reset' = now
             /\ move_count' <= 1
             /\ ValidRequest(ev')
                /\ now - last_mouse_move_time >= min_move_interval
                => /\ Len(ev'.prim) = 1
                   /\ move_count' = 1
                   /\ ev'.outcome = "executed" => ~is_locked']_vars

\* A move executed by the request that released the lock.
C5_Witness == ev.unlocked /\ ev.outcome = "executed"

\* C6 as stated: a primitive that raises locks the governor, and every
\* mouse_move request that arrives before the unlock timeout has elapsed
\* since the failure is denied.
C6_ErrorFreeze ==
    [][MoveStep
          => /\ ev'.outcome = "raised" => is_locked'
             /\ lockCause = "error" /\ lockedAt >= 0
                /\ now - lockedAt < UnlockTimeout
                => ev'.prim = <<>>]_vars

\* C7: a relative mouse_move with |x| or |y| above max_move_distance calls
\* no move primitive and leaves the pointer alone, whatever the governor's
\* state.
C7_DistanceLimit ==
    ev.cmd = "mouse_move" /\ ev.relative
    /\ (abs(ev.x) > max_move_distance \/ abs(ev.y) > max_move_distance)
    => ev.prim = <<>>

\* A relative move refused by the distance check itself.
C7_Witness == ev.outcome = "distance"

\* C8: the pointer never leaves the screen.  An absolute mouse_move with a
\* target off the screen calls no primitive; the delta handed to moveRel
\* added to the pointer's position is on the screen; the pointer is on the
\* screen after every step.
C8_PointerOnScreen ==
    [][/\ pos' \in Screen
       /\ MoveStep =>
             /\ ~ev'.relative /\ ~ValidRequest(ev') => ev'.prim = <<>>
             /\ \A i \in 1..Len(ev'.prim) :
                   ev'.prim[i].name = "moveRel" =>
                       <<pos[1] + ev'.prim[i].a, pos[2] + ev'.prim[i].b>>
                           \in Screen]_vars

\* A relative move whose delta was cut at the screen edge.
C8_Witness ==
    /\ ev.relative /\ ev.outcome = "executed"
    /\ ev.prim[1].a # ev.x

\* The call a valid request shall make with the pointer at p.
ExpectedCall(e, p) ==
    IF e.relative
    THEN [name |-> "moveRel",
          a |-> max(0, min(p[1] + e.x, ScreenWidth - 1)) - p[1],
          b |-> max(0, min(p[2] + e.y, ScreenHeight - 1)) - p[2]]
    ELSE [name |-> "moveTo", a |-> e.x, b |-> e.y]

\* The frequency cap does not stand against the next counted request.
UnderFrequencyCap ==
    \/ now - last_move_reset >= FrequencyWindow
    \/ move_count + 1 <= max_moves_per_second

\* C9 as stated: a valid mouse_move that arrives at least
\* min_move_interval after the last executed move, under the frequency
\* cap, with the governor unlocked, calls the move primitive exactly once
\* with the requested target or the clamped delta.
C9_Original ==
    [][MoveStep /\ ValidRequest(ev') /\ ~is_locked /\ UnderFrequencyCap
       /\ (lastMoveEnd < 0 \/ now - lastMoveEnd >= min_move_interval)
          => ev'.prim = <<ExpectedCall(ev', pos)>>]_vars

\* C9 amended: the same, for a request that also arrives at least
\* min_move_interval after the governor was constructed
\* (last_mouse_move_time starts at the construction time).
C9_ValidMoveAllowed ==
    [][MoveStep /\ ValidRequest(ev') /\ ~is_locked /\ UnderFrequencyCap
       /\ now - last_mouse_move_time >= min_move_interval
          => ev'.prim = <<ExpectedCall(ev', pos)>>]_vars

\* A valid absolute move executed as the last count the cap allows.
C9_Witness ==
    /\ ev.outcome = "executed" /\ ~ev.relative /\ ~ev.unlocked
    /\ move_count = max_moves_per_second

\* ------------------------------------------------- claims: the sessions

\* C10: a ping frame with timestamp T handled for a registered connection
\* appends exactly one pong frame carrying T to that connection's outbound
\* log and changes nothing else: no other log, no primitive call, no
\* pointer movement, no governor field, no registry entry.
C10_PingPong ==
    [][HandlerStep /\ ev'.cmd = "ping"
          => /\ ev'.c \in clients
             /\ outbox'[ev'.c] =
                    Append(outbox[ev'.c],
                           [type |-> "pong", client_id |-> 0,
                            timestamp |-> ev'.timestamp, command |-> ""])
             /\ \A c \in Conns \ {ev'.c} : outbox'[c] = outbox[c]
             /\ ev'.prim = <<>>
             /\ pos' = pos
             /\ UNCHANGED govVars
             /\ clients' = clients]_vars

\* A ping answered on one connection while another is registered and the
\* governor has counted moves.
C10_Witness ==
    /\ ev.cmd = "ping" /\ ev.c \in clients /\ clients # {ev.c}
    /\ outbox[ev.c][Len(outbox[ev.c])].type = "pong"
    /\ outbox[ev.c][Len(outbox[ev.c])].timestamp = ev.timestamp
    /\ move_count > 0

\* ----------------------------------------- claims: the message handlers

\* C11 as stated: a frame that decodes as an object whose type is not a
\* recognized command is answered, on its own connection, with one error
\* frame whose command field is that type; no primitive is called and the
\* session stays registered and in its message loop.
C11_UnknownCommand ==
    [][HandlerStep /\ ev'.outcome = "unknown" /\ evc' \in open
          => /\ Len(outbox'[evc']) = Len(outbox[evc']) + 1
             /\ outbox'[evc'][Len(outbox'[evc'])].type = "error"
             /\ outbox'[evc'][Len(outbox'[evc'])].command = ev'.cmd
             /\ ev'.prim = <<>>
             /\ hs'[evc'] = "loop"
             /\ evc' \in clients']_vars

\* A step that dropped a message that is no JSON object.
DropStep ==
    HandlerStep /\ ev'.outcome \in {"JSONDecodeError", "AttributeError"}

\* C12: a message that is no JSON text, or JSON that is no object, is
\* taken from the connection and changes nothing else: no frame is sent
\* on any connection, no primitive is called, the pointer and the governor
\* are untouched, and the session stays registered, open and in its
\* message loop, where the next message is taken as any other.
C12_MalformedDropped ==
    [][DropStep
          => /\ inbox'[evc'] = inbox[evc'] - 1
             /\ outbox' = outbox
             /\ ev'.prim = <<>>
             /\ pos' = pos
             /\ UNCHANGED govVars
             /\ UNCHANGED <<clients, open, hs, pending>>
             /\ evc' \in clients' /\ evc' \in open'
             /\ hs'[evc'] = "loop"]_vars

\* JSON that is no object was dropped while the next message waits and
\* the session is ready to take it.
C12_Witness ==
    /\ ev.outcome = "AttributeError"
    /\ evc \in clients /\ hs[evc] = "loop" /\ inbox[evc] > 0
    /\ Len(outbox[evc]) = 1

\* The connections whose handle_client coroutine is running.
Running == {c \in Conns : hs[c] # "none"}

\* C13: the registry holds exactly the connections whose handler is
\* running, whichever way handlers have left (welcome send failed, client
\* went away), and get_connected_clients_count() is their number.
C13_RegistryMirrorsHandlers ==
    /\ clients = Running
    /\ get_connected_clients_count = Cardinality(Running)

\* A handler has left after its client went away, one has left or never
\* got past the welcome send, and the registry is empty again after
\* having held an entry.
C13_Witness ==
    /\ \E c \in Conns : welcomes[c] > 0 /\ hs[c] = "none"
    /\ \E c \in Conns : hs[c] = "loop" /\ c \notin open /\ c \in clients
    /\ get_connected_clients_count = 1

\* On every connection past the welcome send the welcome frame is the
\* first frame of the outbound log and the only welcome in it, it carries
\* the stored screen dimensions, and the connection is registered; before
\* the send the log is empty; a handler takes a message only when the
\* welcome frame is already in the log.
WelcomeOnceAndFirst ==
    /\ \A c \in Conns :
          /\ hs'[c] = "welcome" => outbox'[c] = <<>> /\ c \in clients'
          /\ hs'[c] \in {"loop", "sleep"} =>
                /\ outbox'[c] # <<>>
                /\ outbox'[c][1].type = "welcome"
                /\ outbox'[c][1].screen_info =
                       [width |-> ScreenWidth, height |-> ScreenHeight]
                /\ \A i \in 2..Len(outbox'[c]) :
                      outbox'[c][i].type # "welcome"
                /\ c \in clients'
    /\ HandlerStep /\ evc' \in Conns =>
          outbox[evc'] # <<>> /\ outbox[evc'][1].type = "welcome"

\* C14 as stated: the welcome frame is sent once and first on every
\* connection, after registration and before any message is handled, with
\* the stored screen dimensions, and no client_id is sent in the welcome
\* frames of two connections.
C14_WelcomeUniqueId ==
    [][WelcomeOnceAndFirst /\ \A id \in Conns : welcomes'[id] <= 1]_vars

\* C15 as stated: when a primitive raises while a recognized command is
\* executed for an open connection, that connection is sent exactly one
\* frame: an error frame with the command's type and the description of
\* the failure.
C15_PrimitiveFailureReported ==
    [][HandlerStep /\ ev'.outcome = "raised" /\ ev'.cmd \in Recognized
       /\ evc' \in open
          => outbox'[evc'] =
                 Append(outbox[evc'],
                        [type |-> "error", client_id |-> 0, timestamp |-> 0,
                         command |-> ev'.cmd, error |-> PrimitiveError])]_vars

\* The branches of handle_mouse_move that refuse the request.
Denials == {"locked", "rate", "frequency", "distance", "bounds"}

\* C16: every frame sent is a welcome, pong or error frame; a command
\* whose primitives all returned sends nothing on any connection, and
\* neither does a mouse_move refused by the governor (lock, rate limit,
\* frequency cap, distance, bounds).
C16_OnlyThreeKindsOfFrame ==
    [][/\ \A c \in Conns : \A i \in 1..Len(outbox'[c]) :
             outbox'[c][i].type \in {"welcome", "pong", "error"}
       /\ HandlerStep /\ ev'.outcome = "executed" => outbox' = outbox
       /\ HandlerStep /\ ev'.cmd = "mouse_move" /\ ev'.outcome \in Denials
             => outbox' = outbox]_vars

\* A mouse_move refused by the lock on a connection that has been sent a
\* welcome, a pong and an error frame and nothing else.
C16_Witness ==
    /\ ev.cmd = "mouse_move" /\ ev.outcome = "locked" /\ evc \in open
    /\ {outbox[evc][i].type : i \in 1..Len(outbox[evc])}
           = {"welcome", "pong", "error"}

\* ------------------------------------------- claims: sessions together

\* C17: a session handles its messages one at a time.  Its handler takes
\* a message only from the message loop, with no command of the session
\* in progress; while a multiple_keys command sleeps, the only steps of
\* the session are the presses of that command's remaining entries, and
\* the loop is entered again only when no entry is left or one raised.
C17_OneAtATime ==
    [][/\ HandlerStep /\ evc' \in Conns =>
             IF inbox'[evc'] < inbox[evc']
             THEN /\ hs[evc'] = "loop" /\ pending[evc'] = <<>>
                  /\ inbox'[evc'] = inbox[evc'] - 1
             ELSE /\ hs[evc'] = "sleep" /\ pending[evc'] # <<>>
                  /\ ev'.cmd = "multiple_keys"
                  /\ inbox' = inbox
       /\ \A c \in Conns :
             hs[c] = "sleep" /\ hs'[c] = "loop" =>
                 pending[c] = <<>> \/ (HandlerStep /\ ev'.outcome = "raised")
      ]_vars

\* A multiple_keys command sleeps with an entry left while the next
\* message of its session waits.
C17_Witness ==
    \E c \in Conns : hs[c] = "sleep" /\ pending[c] # <<>> /\ inbox[c] > 0

\* C18: a session that waits holds up no other.  Connection 1 may stay in
\* the sleep of multiple_keys, or without a message, for ever; on every
\* other connection whose handler is past the welcome, a number of
\* waiting messages does not stay: the handler takes the next one.
C18_WaitingStallsOnlyItself ==
    \A c \in Conns \ {1} : \A k \in 1..MaxInbox :
        (hs[c] \in {"loop", "sleep"} /\ inbox[c] = k) ~> (inbox[c] # k)

\* Connection 1 is in the sleep of multiple_keys with an entry left and a
\* key_press of another connection has just been handled.
C18_Witness ==
    /\ hs[1] = "sleep" /\ pending[1] # <<>>
    /\ evc \in Conns \ {1} /\ ev.cmd = "key_press" /\ ev.outcome = "executed"
    /\ inbox[evc] = 0

\* A session's transport closes, and only that happens: the handlers, the
\* queues and the entries left to press of every session stay as they are.
CloseTouchesNothingElse ==
    [][open' # open /\ open' \subseteq open /\ hs' = hs =>
           UNCHANGED <<clients, inbox, outbox, pending, ev, evc>>]_vars

\* C19 as stated, in the case it names: closing a session cancels its
\* pending work at once.  An entry of a multiple_keys command that was
\* sleeping between entries is pressed only while the transport of its
\* session is open.
C19_CloseCancels ==
    [][HandlerStep /\ evc' \in Conns /\ hs[evc'] = "sleep" /\ ev'.prim # <<>>
          => evc' \in open]_vars

\* ------------------------------------------------ claims: the coordinator

\* C20 as stated: startup is ordered listener, advertisement, running.
\* While running is true the listening socket is bound and the service is
\* registered, and nothing of the advertisement exists while the socket
\* has not been bound.
C20_StartupOrder ==
    /\ running => listener = "bound" /\ registered
    /\ zeroconf = "open" \/ service_info \/ registered \/ browser
           => listener # "unbound"

\* The same while no signal has been received.
StartupOrderUnsignalled == pc.signal.at = "idle" => C20_StartupOrder

\* A step in which start() raises to its caller: the stop of its except
\* clause has returned.
Propagates ==
    /\ pc.main.in \in {"start", "except"} /\ pc.main.at # "serving"
    /\ pc'.main.in = "finally"

\* C21 as stated: when a step of the startup fails, everything that was
\* started is shut down by the time start() raises to its caller: the
\* listening socket is not bound, the service is not announced, the
\* AsyncZeroconf and the browser are released and running is false.
C21_FailedStartupShutsDown ==
    [][Propagates =>
           /\ ~running' /\ listener' # "bound"
           /\ ~registered' /\ zeroconf' = "none" /\ ~browser']_vars

\* What does hold when start() raises: the server is not running, its
\* socket is not bound and the browser is forgotten.
FailedStartupStopsServing ==
    [][Propagates => ~running' /\ listener' # "bound" /\ ~browser']_vars

\* A step in which a call of stop() returns: the stop task of the signal
\* handler ends, the stop of the finally clause of main returns, or the
\* stop of the except clause of start does.
StopReturns ==
    \/ pc.signal.at # "done" /\ pc'.signal.at = "done"
    \/ pc.main.at # "exited" /\ pc'.main.at = "exited"
    \/ Propagates

\* A step in which stop() gets past the unregistration or past the close
\* of the AsyncZeroconf.
AdvertisementStep ==
    \E who \in Coroutines :
        pc[who].at \in {"unregister", "close"} /\ pc'[who] # pc[who]

\* stop() touches the advertisement only when the listening socket is
\* closed, every transport is closed and every handler has returned.
ShutdownOrder ==
    [][AdvertisementStep =>
           /\ listener = "closed" /\ open = {}
           /\ handlers_gone /\ clients = {}]_vars

\* C22 as stated: shutdown runs in the reverse order of startup, and when
\* stop() returns running is false, the registry is empty, the service is
\* unregistered and the AsyncZeroconf is released.
C22_ShutdownReversed ==
    [][/\ AdvertisementStep =>
              /\ listener = "closed" /\ open = {}
              /\ handlers_gone /\ clients = {}
       /\ StopReturns =>
              /\ ~running' /\ clients' = {}
              /\ ~registered' /\ zeroconf' = "none"]_vars

\* --------------------------------------------- claims: the other commands

\* C23: mouse_scroll calls the scroll primitive once, with the amount
\* brought into -max_scroll..max_scroll: max_scroll for an amount above,
\* -max_scroll for one below, the amount itself within, 0 for a frame
\* without amount; and no error frame is sent for it.
C23_ScrollClamped ==
    ev.cmd = "mouse_scroll" =>
        LET amount == get(req, "amount", 0)
            called == IF amount > max_scroll THEN max_scroll
                      ELSE IF amount < -max_scroll THEN -max_scroll
                      ELSE amount
        IN  /\ ev.prim = <<[name |-> "scroll", amount |-> called]>>
            /\ \A i \in 1..Len(outbox[evc]) : outbox[evc][i].type # "error"

\* mouse_scroll with amount 10000 was handled and the primitive got 500.
C23_Witness ==
    /\ ev.cmd = "mouse_scroll" /\ get(req, "amount", 0) = 10000
    /\ ev.prim = <<[name |-> "scroll", amount |-> 500]>>
    /\ evc \in open

\* The calls a handler made are the calls expected of it, all of them
\* when none raised and the first of them up to the one that raised.
MadeInOrder(expected) ==
    IF ev.outcome = "raised"
    THEN \E n \in 1..Len(expected) : ev.prim = SubSeq(expected, 1, n)
    ELSE ev.prim = expected

\* The name a part of a key string stands for.
resolved(part) == special(lower(strip(part)))

\* C24: a key string of several parts is resolved part by part, in order.
\* With hold, keyDown is called for the parts first to last; with release
\* and no hold, keyUp is called for them last to first; with neither,
\* hotkey is called once with the parts first to last.
C24_CompoundKeyOrder ==
    ev.cmd = "key_press" /\ Len(req.key) > 1 =>
        LET n == Len(req.key)
            keys == [i \in 1..n |-> resolved(req.key[i])]
        IN  IF get(req, "hold", FALSE)
            THEN MadeInOrder([i \in 1..n |->
                                 [name |-> "keyDown", key |-> keys[i]]])
            ELSE IF get(req, "release", FALSE)
            THEN MadeInOrder([i \in 1..n |->
                                 [name |-> "keyUp", key |-> keys[n + 1 - i]]])
            ELSE MadeInOrder(<<[name |-> "hotkey", keys |-> keys]>>)

\* Ctrl+Shift +ESC was released: keyUp for esc, shift and ctrl.
C24_Witness ==
    /\ ev.cmd = "key_press" /\ req.key = <<"Ctrl", "Shift ", "ESC">>
    /\ ev.prim = <<[name |-> "keyUp", key |-> "esc"],
                   [name |-> "keyUp", key |-> "shift"],
                   [name |-> "keyUp", key |-> "ctrl"]>>

\* Spellings of one key string that differ in letter case only.
SameLetters ==
    {{"ESC", "Esc", "esc"}, {"ESCAPE", "escape"}, {"A", "a"}, {"Q"},
     {"Stop", "stop"}, {"space"}}

\* The key name handle_key_press hands to the primitive for a key string
\* of one part.
key_of(part) ==
    handle_key_press([key |-> <<part>>, hold |-> TRUE], 0).prim[1].key

\* The key name the primitive got in the step recorded in ev.
pressed ==
    IF ev.prim[1].name = "typewrite" THEN "space" ELSE ev.prim[1].key

\* C25: a key string of one part is resolved without regard to letter
\* case and once for all: its other spellings are resolved to the name the
\* primitive got, so is every name the table sends to that name, that
\* name is resolved to itself, and a key the table does not have reaches
\* the primitive lower-cased and otherwise as typed.
C25_AliasResolution ==
    ev.cmd = "key_press" /\ Len(req.key) = 1 =>
        LET typed == req.key[1]
        IN  /\ \A spellings \in SameLetters :
                   typed \in spellings =>
                       \A other \in spellings : key_of(other) = pressed
            /\ \A alias \in DOMAIN SPECIAL_KEYS :
                   SPECIAL_KEYS[alias] = pressed => key_of(alias) = pressed
            /\ key_of(pressed) = pressed
            /\ \A name \in DOMAIN SPECIAL_KEYS :
                   key_of(key_of(name)) = key_of(name)
            /\ lower(typed) \notin DOMAIN SPECIAL_KEYS
                   => pressed = lower(typed)

\* ESCAPE was pressed and the primitive got esc.
C25_Witness ==
    /\ ev.cmd = "key_press" /\ req.key = <<"ESCAPE">>
    /\ ev.prim = <<[name |-> "press", key |-> "esc"]>>

\* The frame sent last to the connection of the step recorded in ev is an
\* error frame for the command of that step.
ErrorSent ==
    /\ outbox[evc] # <<>>
    /\ outbox[evc][Len(outbox[evc])].type = "error"
    /\ outbox[evc][Len(outbox[evc])].command = ev.cmd

\* mouse_click hands clicks and interval to the click primitive as they
\* came, for the buttons left, right and middle, and calls doubleClick
\* without them for double.
ClickPassesThrough ==
    ev.cmd = "mouse_click" /\ "button" \in DOMAIN req =>
        IF req.button \in {"left", "right", "middle"}
        THEN ev.prim = <<[name |-> "click", button |-> req.button,
                          clicks |-> get(req, "clicks", 1),
                          interval |-> get(req, "interval", 0)]>>
        ELSE IF req.button = "double"
        THEN ev.prim = <<[name |-> "doubleClick"]>>
        ELSE ev.prim = <<>>

\* C26 as stated: a mouse_click with clicks below 1 is rejected: no
\* primitive is called and an error frame for mouse_click is sent; a
\* mouse_click with clicks of at least 1 passes clicks and interval
\* through, and the button double calls doubleClick without them.
C26_ClicksValidated ==
    ev.cmd = "mouse_click" /\ evc \in open =>
        IF get(req, "clicks", 1) < 1
        THEN ev.prim = <<>> /\ ErrorSent
        ELSE ClickPassesThrough

\* The entries of the multiple_keys command of the step to ev' that come
\* after the entry pressed in that step.
EntriesLeft ==
    IF hs[evc'] = "sleep" THEN Tail(pending[evc']) ELSE Tail(req'.keys)

\* C27 as stated: multiple_keys is a best-effort sequence.  When the press
\* of an entry raises and entries are left, the command goes on: it
\* sleeps and has the entries left to press.
C27_BestEffortSequence ==
    [][/\ HandlerStep /\ ev'.cmd = "multiple_keys"
       /\ ev'.outcome = "raised" /\ EntriesLeft # <<>>
       => hs'[evc'] = "sleep" /\ pending'[evc'] = EntriesLeft]_vars

\* While no press raises the entries are pressed in the order of the
\* list, one per step, with the sleep after each.
SequenceInOrder ==
    [][/\ HandlerStep /\ ev'.cmd = "multiple_keys"
       /\ ev'.outcome # "raised" /\ ev'.prim # <<>>
       => hs'[evc'] = "sleep" /\ pending'[evc'] = EntriesLeft]_vars

\* C28 as stated: a mouse_move frame without x or without y is rejected
\* when it is decoded: no move primitive is called, no field of the
\* governor changes, and the handler is back at the message loop.
C28_MissingFieldRejected ==
    [][MoveStep /\ ("x" \notin DOMAIN req' \/ "y" \notin DOMAIN req') =>
           /\ ev'.prim = <<>>
           /\ UNCHANGED govVars
           /\ hs'[evc'] = "loop"]_vars

\* After such a frame the handler of the session is at the message loop.
PartialMoveGoesOn ==
    [][MoveStep /\ ("x" \notin DOMAIN req' \/ "y" \notin DOMAIN req') =>
           hs'[evc'] = "loop"]_vars

\* C29: the four fields of the governor change only in the handling of
\* a mouse_move: every other step (a click, scroll, key press, typed
\* text, key sequence and its continuation, ping, unknown or malformed
\* frame, a connect, a welcome, a close by the peer, a handler leaving),
\* leaves them as they were, also when its primitive raises.
C29_GovernorOnlyByMoves ==
    [][~MoveStep => UNCHANGED govVars]_vars

\* A command other than mouse_move whose primitive raised has been handled
\* while the governor held a lockout and a count above zero.
C29_Witness ==
    /\ ev.cmd \in {"mouse_click", "mouse_scroll", "key_press", "key_type",
                   "multiple_keys"}
    /\ ev.prim # <<>>
    /\ ev.outcome = "raised"
    /\ move_count > 0
    /\ is_locked

\* C30 as stated: a mouse_move denied because the lockout is active or
\* by the rate limit leaves the four fields of the governor unchanged,
\* and a mouse_move denied for its distance or for being out of bounds
\* has raised move_count by one.
C30_DeniedRequestsAndTheCount ==
    [][MoveStep =>
           /\ ev'.outcome \in {"locked", "rate"} => UNCHANGED govVars
           /\ ev'.outcome \in {"distance", "bounds"} =>
                  move_count' = move_count + 1]_vars

\* A mouse_move denied by the lockout or by the rate limit leaves the
\* four fields unchanged.
DeniedEarlyTouchesNothing ==
    [][MoveStep /\ ev'.outcome \in {"locked", "rate"} =>
           UNCHANGED govVars]_vars

\* A mouse_move denied for distance or bounds has raised move_count by
\* one, unless it released the lockout, and then move_count is 1, or it
\* restarted the window, and then move_count is 0.
DeniedLateCountedUnlessRestart ==
    [][MoveStep /\ ev'.outcome \in {"distance", "bounds"} =>
           move_count' = IF ev'.unlocked THEN 1
                         ELSE IF last_move_reset' # last_move_reset THEN 0
                         ELSE move_count + 1]_vars

\* ---------------------------------------- claims: the governor is shared

Passed == {"distance", "bounds", "executed", "raised"}

\* C31: all sessions share one governor, evaluated in one piece.  While
\* the lockout set by the mouse_move of one session is not released, a
\* mouse_move of any other session is denied and calls no primitive; a
\* mouse_move that follows the executed mouse_move of another session
\* within min_move_interval is denied by the rate limit; the mouse_moves
\* of different sessions are counted in the one move_count; and the step
\* that makes the checks of an executed mouse_move is the step that sets
\* last_mouse_move_time, after which the handler is back at its loop, so
\* no command of another session runs in between.
C31_SharedAtomicGovernor ==
    [][MoveStep =>
           /\ is_locked /\ lockedBy # evc' /\ ~ev'.unlocked =>
                  ev'.outcome = "locked" /\ ev'.prim = <<>>
           /\ /\ ev.cmd = "mouse_move" /\ ev.outcome = "executed"
              /\ evc # evc' /\ ~is_locked
              /\ now - last_mouse_move_time < min_move_interval
              => ev'.outcome = "rate" /\ ev'.prim = <<>>
           /\ /\ ev.cmd = "mouse_move" /\ ev.outcome \in Passed
              /\ evc # evc' /\ ev'.outcome \in Passed
              /\ last_move_reset' = last_move_reset
              => move_count' = move_count + 1
           /\ ev'.outcome = "executed" =>
                  last_mouse_move_time' = now' /\ hs'[evc'] = "loop"]_vars

\* Two sessions are registered, the mouse_move of the first set the
\* lockout, and the mouse_move of the second has just been denied by it.
C31_Witness ==
    /\ {1, 2} \subseteq clients
    /\ is_locked /\ lockedBy = 1
    /\ evc = 2 /\ ev.cmd = "mouse_move" /\ ev.outcome = "locked"

====
